---- MODULE Spec2Model ----
(***************************************************************************)
(* Model of the reference/run resolution (CliContext::get_project,         *)
(* get_tag, get_branch, get_ref, check_ref, get_pipeline, get_job) and of  *)
(* the job-log section renderer (CliContext::print_log_lines) of gil,      *)
(* src/src/context.rs.                                                     *)
(***************************************************************************)
EXTENDS Integers, Sequences, FiniteSets, TLC

(***************************************************************************)
(* Bounds                                                                  *)
(***************************************************************************)
MaxJobs == 2
MaxPipelines == 2
MaxJobPipelines == 1
MaxLines == 2
MaxLineSegs == 3
MaxSegs == 4
MaxOpen == 2
MaxName == 4

(***************************************************************************)
(* Option<T> and Result<T> values.  An Option is a sequence of length at   *)
(* most one; a Result carries the backend calls made while computing it.   *)
(***************************************************************************)
None == << >>

Some(x) == << x >>

Ok(v, c) == [ok |-> TRUE, val |-> << v >>, err |-> "", cause |-> "", calls |-> c]

Err(e, k, c) == [ok |-> FALSE, val |-> << >>, err |-> e, cause |-> k, calls |-> c]

\* Option::or_else: the first option when it is Some, else the second
OrElse(a, b) == IF a # None THEN a ELSE b

(***************************************************************************)
(* gitlab::StatusState and has_log                                         *)
(***************************************************************************)
StatusState ==
  {"Created", "WaitingForResource", "Preparing", "Pending", "Running",
   "Success", "Failed", "Canceled", "Skipped", "Manual", "Scheduled"}

\* status_style: the Style of a status
status_style(status) ==
  Some(CASE status \in {"Success", "Running"} -> "Good"
         [] status \in {"Canceled", "Failed"} -> "Error"
         [] status \in {"WaitingForResource", "Skipped", "Pending"} -> "Warning"
         [] status \in {"Created", "Manual", "Preparing", "Scheduled"} -> "Literal")

\* mutant: a canceled job has no log
has_log_NoCanceled(status) ==
  \/ status = "Failed"
  \/ status = "Running"
  \/ status = "Success"

has_log(status) ==
  \/ status = "Canceled"
  \/ status = "Failed"
  \/ status = "Running"
  \/ status = "Success"

(***************************************************************************)
(* Log text.  A string is a sequence of tokens: the literals the parser    *)
(* looks for, digits, letters, and CR for the carriage return that ends a  *)
(* section marker.                                                         *)
(***************************************************************************)
Digits == {"0", "1", "2", "3", "4", "5", "6", "7", "8", "9"}

DigitVal(c) ==
  CASE c = "0" -> 0 [] c = "1" -> 1 [] c = "2" -> 2 [] c = "3" -> 3 [] c = "4" -> 4
    [] c = "5" -> 5 [] c = "6" -> 6 [] c = "7" -> 7 [] c = "8" -> 8 [] c = "9" -> 9

Whitespace == {"CR", " "}

StartsWith(s, prefix) ==
  Len(s) >= Len(prefix) /\ SubSeq(s, 1, Len(prefix)) = prefix

\* str::trim: leading and trailing whitespace removed
Trim(s) ==
  LET keep == {k \in 1..Len(s) : s[k] \notin Whitespace} IN
  IF keep = {} THEN << >>
  ELSE SubSeq(s, CHOOSE a \in keep : \A k \in keep : a <= k,
                 CHOOSE b \in keep : \A k \in keep : b >= k)

\* str::find(char): 1-based position of the first occurrence
Find(s, c) ==
  LET at == {k \in 1..Len(s) : s[k] = c} IN
  IF at = {} THEN None ELSE Some(CHOOSE a \in at : \A k \in at : a <= k)

\* str::contains(&str)
Contains(s, sub) ==
  \E i \in 1..(Len(s) + 1) :
    i + Len(sub) - 1 <= Len(s) /\ SubSeq(s, i, i + Len(sub) - 1) = sub

\* str::splitn(3, ':')
SplitN3(s) ==
  LET i == Find(s, ":") IN
  IF i = None THEN << s >>
  ELSE LET rest == SubSeq(s, i[1] + 1, Len(s))
           j == Find(rest, ":")
       IN IF j = None THEN << SubSeq(s, 1, i[1] - 1), rest >>
          ELSE << SubSeq(s, 1, i[1] - 1), SubSeq(rest, 1, j[1] - 1),
                  SubSeq(rest, j[1] + 1, Len(rest)) >>

RECURSIVE DecimalValue(_)
DecimalValue(ds) ==
  IF ds = << >> THEN 0
  ELSE 10 * DecimalValue(SubSeq(ds, 1, Len(ds) - 1)) + DigitVal(ds[Len(ds)])

\* str::parse::<i64>: an optional sign followed by at least one digit
ParseI64(f) ==
  LET signed == f # << >> /\ f[1] \in {"-", "+"}
      ds == IF signed THEN Tail(f) ELSE f
  IN IF ds = << >> \/ \E k \in 1..Len(ds) : ds[k] \notin Digits THEN None
     ELSE Some(IF signed /\ f[1] = "-" THEN 0 - DecimalValue(ds) ELSE DecimalValue(ds))

(***************************************************************************)
(* Section::from_str.  The outcome is a Section, an error, or a panic      *)
(* (the unwrap of a split in fewer than three fields, the slice            *)
(* name[i + 1..j] with ']' before '[').                                    *)
(***************************************************************************)
SectionType_from_str(s) ==
  IF s = << "section_start" >> THEN Some("Start")
  ELSE IF s = << "section_end" >> THEN Some("End")
  ELSE None

ParseErr == [tag |-> "Err"]

ParsePanic == [tag |-> "Panic"]

\* mutant: a section with any flag is collapsed
Section_from_str_AnyFlag(s) ==
  IF StartsWith(s, << "section_start", ":" >>) \/ StartsWith(s, << "section_end", ":" >>)
    THEN LET info == SplitN3(Trim(s)) IN
         IF Len(info) # 3 THEN ParsePanic
         ELSE LET type_ == SectionType_from_str(info[1])
                  name == info[3]
                  i == Find(name, "[")
                  j == Find(name, "]")
                  flagged == i # None /\ j # None
                  timestamp == ParseI64(info[2])
              IN IF type_ = None THEN ParseErr
                 ELSE IF flagged /\ i[1] + 1 > j[1] THEN ParsePanic
                 ELSE IF timestamp = None THEN ParseErr
                 ELSE [tag |-> "Ok",
                       section |->
                         [type_ |-> type_[1],
                          timestamp |-> timestamp[1],
                          name |-> IF flagged THEN SubSeq(name, 1, i[1] - 1) ELSE name,
                          collapsed |-> flagged]]
    ELSE ParseErr

Section_from_str(s) ==
  IF StartsWith(s, << "section_start", ":" >>) \/ StartsWith(s, << "section_end", ":" >>)
    THEN LET info == SplitN3(Trim(s)) IN
         IF Len(info) # 3 THEN ParsePanic
         ELSE LET type_ == SectionType_from_str(info[1])
                  name == info[3]
                  i == Find(name, "[")
                  j == Find(name, "]")
                  flagged == i # None /\ j # None
                  timestamp == ParseI64(info[2])
              IN IF type_ = None THEN ParseErr
                 ELSE IF flagged /\ i[1] + 1 > j[1] THEN ParsePanic
                 ELSE IF timestamp = None THEN ParseErr
                 ELSE [tag |-> "Ok",
                       section |->
                         [type_ |-> type_[1],
                          timestamp |-> timestamp[1],
                          name |-> IF flagged THEN SubSeq(name, 1, i[1] - 1) ELSE name,
                          collapsed |-> flagged /\
                            SubSeq(name, i[1] + 1, j[1] - 1) = << "collapsed=true" >>]]
    ELSE ParseErr

(***************************************************************************)
(* LogContext::show_line                                                   *)
(***************************************************************************)
\* mutant: --only-headers does not hide the lines of the sections
show_line_of_NoOnlyHeaders(sections, a) ==
  \/ a.all
  \/ ((a.only_headers \/ a.headers) /\ sections = << >>)
  \/ /\ \A k \in 1..Len(sections) :
          ~sections[k].collapsed \/ Contains(sections[k].name, a.section)
     /\ \E k \in 1..Len(sections) : Contains(sections[k].name, a.section)

\* mutant: one section named by --section is enough to show the lines
show_line_of_AnyNamed(sections, a) ==
  \/ a.all
  \/ ((a.only_headers \/ a.headers) /\ sections = << >>)
  \/ /\ ~a.only_headers
     /\ \E k \in 1..Len(sections) : Contains(sections[k].name, a.section)

\* mutant: --headers shows the lines whatever the open sections
show_line_of_HeadersAnywhere(sections, a) ==
  \/ a.all
  \/ a.only_headers \/ a.headers
  \/ /\ ~a.only_headers
     /\ \A k \in 1..Len(sections) :
          ~sections[k].collapsed \/ Contains(sections[k].name, a.section)
     /\ \E k \in 1..Len(sections) : Contains(sections[k].name, a.section)

\* mutant: --all is not taken into account
show_line_of_NoAll(sections, a) ==
  \/ ((a.only_headers \/ a.headers) /\ sections = << >>)
  \/ /\ ~a.only_headers
     /\ \A k \in 1..Len(sections) :
          ~sections[k].collapsed \/ Contains(sections[k].name, a.section)
     /\ \E k \in 1..Len(sections) : Contains(sections[k].name, a.section)

\* mutant: no open section has to be named by --section
show_line_of_NoneNamed(sections, a) ==
  \/ a.all
  \/ ((a.only_headers \/ a.headers) /\ sections = << >>)
  \/ /\ ~a.only_headers
     /\ \A k \in 1..Len(sections) :
          ~sections[k].collapsed \/ Contains(sections[k].name, a.section)

show_line_of(sections, a) ==
  \/ a.all
  \/ ((a.only_headers \/ a.headers) /\ sections = << >>)
  \/ /\ ~a.only_headers
     /\ \A k \in 1..Len(sections) :
          ~sections[k].collapsed \/ Contains(sections[k].name, a.section)
     /\ \E k \in 1..Len(sections) : Contains(sections[k].name, a.section)

(***************************************************************************)
(* Backend answers.  A world fixes what the remote answers to each query   *)
(* of one command invocation; a query that is down fails with a transport  *)
(* error, a query for something that does not exist with an API error.     *)
(***************************************************************************)
Names == {"v1", "v2", "main"}

ProjectNames == {"grp/app", "grp/lib"}

ExplicitPipelineId == 7

ListedPipelineBase == 100

JobIdBase == 10

JobIds == (JobIdBase + 1) .. (JobIdBase + MaxJobs + 1)

\* sequences over S of length at most n
SeqUpTo(S, n) == UNION {[1..k -> S] : k \in 0..n}

\* the three outcomes of a backend query; the call and its outcome are logged
Query(kind, key, down, found, v) ==
  IF down THEN Err("Backend", "Transport", << <<kind, key, "Transport">> >>)
  ELSE IF found THEN Ok(v, << <<kind, key, "ok">> >>)
  ELSE Err("Backend", "NotFound", << <<kind, key, "NotFound">> >>)

(***************************************************************************)
(* CliContext::get_project                                                 *)
(***************************************************************************)
\* mutant: the local hint is preferred to the explicit project
get_project_HintFirst(default, repo, w) ==
  LET id == OrElse(repo.name, default) IN
  IF id # None
    THEN Query("project", id[1], w.projectDown, id[1] \in w.projects, id[1])
    ELSE Err("NoProject", "", << >>)

get_project(default, repo, w) ==
  LET id == OrElse(default, repo.name) IN
  IF id # None
    THEN Query("project", id[1], w.projectDown, id[1] \in w.projects, id[1])
    ELSE Err("NoProject", "", << >>)

(***************************************************************************)
(* CliContext::get_tag, get_branch, get_ref, check_ref                     *)
(***************************************************************************)
get_tag(default, repo, w) ==
  LET tag == OrElse(default, repo.tag) IN
  IF tag # None
    THEN Query("tag", tag[1], w.tagDown, tag[1] \in w.tags, tag[1])
    ELSE Err("NoTag", "", << >>)

get_branch(default, repo, w) ==
  LET branch == OrElse(default, Some(repo.branch)) IN
  IF branch # None
    THEN Query("branch", branch[1], w.branchDown, branch[1] \in w.branches, branch[1])
    ELSE Err("NoBranch", "", << >>)

\* mutant: the branch is looked up first, the tag only when that fails
get_ref_BranchFirst(ref_, repo, w) ==
  LET b == get_branch(None, repo, w) IN
  IF b.ok THEN b
  ELSE LET t == get_tag(ref_, repo, w) IN
       IF t.ok THEN Ok(t.val[1], b.calls \o t.calls)
       ELSE Err("NoRef", t.cause, b.calls \o t.calls)

get_ref(ref_, repo, w) ==
  LET t == get_tag(ref_, repo, w) IN
  IF t.ok THEN t
  ELSE LET b == get_branch(None, repo, w) IN
       IF b.ok THEN Ok(b.val[1], t.calls \o b.calls)
       ELSE Err("NoRef", b.cause, t.calls \o b.calls)

\* mutant: the resolved name is not compared with the explicit one
check_ref_NoCompare(ref_, repo, w) == get_ref(ref_, repo, w)

check_ref(ref_, repo, w) ==
  LET ref2_ == get_ref(ref_, repo, w) IN
  IF ~ref2_.ok THEN ref2_
  ELSE IF ref_ # None /\ ref_[1] # ref2_.val[1]
    THEN Err("RefDiverged", "", ref2_.calls)
    ELSE ref2_

(***************************************************************************)
(* CliContext::get_pipeline                                                *)
(***************************************************************************)
\* the pipelines the remote lists, newest first: ids are given by position
Listed(statuses) ==
  [k \in 1..Len(statuses) |-> [id |-> ListedPipelineBase + k, status |-> statuses[k]]]

\* mutant: the last listed pipeline is taken
get_pipeline_Last(default, w) ==
  IF default # None
    THEN Query("pipeline", default[1], w.pipelineDown, w.fetched # None,
               [id |-> default[1], status |-> IF w.fetched # None THEN w.fetched[1] ELSE ""])
    ELSE LET l == Query("pipelines", "ref", w.pipelineDown, TRUE, Listed(w.listed)) IN
         IF ~l.ok THEN l
         ELSE IF l.val[1] # << >>
           THEN Ok(l.val[1][Len(l.val[1])], l.calls)
           ELSE Err("NoPipeline", "", l.calls)

\* mutant: a failed query is made a second time
get_pipeline_Retry(default, w) ==
  LET q == IF default # None
             THEN Query("pipeline", default[1], w.pipelineDown, w.fetched # None,
                        [id |-> default[1],
                         status |-> IF w.fetched # None THEN w.fetched[1] ELSE ""])
             ELSE Query("pipelines", "ref", w.pipelineDown, TRUE, Listed(w.listed))
  IN IF ~q.ok THEN Err(q.err, q.cause, q.calls \o q.calls)
     ELSE IF default # None THEN q
     ELSE IF q.val[1] # << >> THEN Ok(Head(q.val[1]), q.calls)
     ELSE Err("NoPipeline", "", q.calls)

get_pipeline(default, w) ==
  IF default # None
    THEN Query("pipeline", default[1], w.pipelineDown, w.fetched # None,
               [id |-> default[1], status |-> IF w.fetched # None THEN w.fetched[1] ELSE ""])
    ELSE LET l == Query("pipelines", "ref", w.pipelineDown, TRUE, Listed(w.listed)) IN
         IF ~l.ok THEN l
         ELSE IF l.val[1] # << >>
           THEN Ok(Head(l.val[1]), l.calls)
           ELSE Err("NoPipeline", "", l.calls)

(***************************************************************************)
(* CliContext::get_job                                                     *)
(***************************************************************************)
\* the jobs the remote lists for the pipeline: ids are given by position
Jobs(statuses) ==
  [k \in 1..Len(statuses) |-> [id |-> JobIdBase + k, status |-> statuses[k]]]

\* the 1-based positions of the jobs with a given id, status, or a log
IdHits(jobs, id) == {k \in 1..Len(jobs) : jobs[k].id = id}

StatusHits(jobs, status) == {k \in 1..Len(jobs) : jobs[k].status = status}

LogHits(jobs) == {k \in 1..Len(jobs) : has_log(jobs[k].status)}

\* iter().enumerate().find(p): 0-based index of the first element satisfying p
FindFirst(hits) ==
  IF hits = {} THEN None
  ELSE Some((CHOOSE k \in hits : \A h \in hits : k <= h) - 1)

\* iter().rev().enumerate().find_map(p) over n elements: the index of the last
\* element satisfying p, counted from the END of the list
FindFirstRev(n, hits) ==
  IF hits = {} THEN None
  ELSE Some(n - (CHOOSE k \in hits : \A h \in hits : k >= h))

\* utils::take_from_vec: the element at 0-based index i, if any
take_from_vec(v, i) == IF i < Len(v) THEN Some(v[i + 1]) ELSE None

\* mutant: the last job with the status of the pipeline is preferred
job_index_LastSame(default, pipeline, jobs) ==
  IF default # None
    THEN LET f == FindFirst(IdHits(jobs, default[1])) IN
         IF f = None THEN Err("JobNotInPipeline", "", << >>)
         ELSE IF has_log(jobs[f[1] + 1].status) THEN Ok(f[1], << >>)
         ELSE Err("JobHasNoLog", "", << >>)
    ELSE LET same == IF has_log(pipeline.status)
                       THEN FindFirstRev(Len(jobs), StatusHits(jobs, pipeline.status))
                       ELSE None
             last == IF same # None THEN Some(Len(jobs) - 1 - same[1]) ELSE None
             i == OrElse(last, FindFirstRev(Len(jobs), LogHits(jobs)))
         IN IF i # None THEN Ok(i[1], << >>) ELSE Err("NoJob", "", << >>)

\* mutant: the status of the job asked for is not checked
job_index_NoLogCheck(default, pipeline, jobs) ==
  IF default # None
    THEN LET f == FindFirst(IdHits(jobs, default[1])) IN
         IF f = None THEN Err("JobNotInPipeline", "", << >>)
         ELSE Ok(f[1], << >>)
    ELSE LET same == IF has_log(pipeline.status)
                       THEN FindFirst(StatusHits(jobs, pipeline.status))
                       ELSE None
             i == OrElse(same, FindFirstRev(Len(jobs), LogHits(jobs)))
         IN IF i # None THEN Ok(i[1], << >>) ELSE Err("NoJob", "", << >>)

\* mutant: without an explicit id only the status of the pipeline is looked for
job_index_NoFallback(default, pipeline, jobs) ==
  IF default # None
    THEN LET f == FindFirst(IdHits(jobs, default[1])) IN
         IF f = None THEN Err("JobNotInPipeline", "", << >>)
         ELSE IF has_log(jobs[f[1] + 1].status) THEN Ok(f[1], << >>)
         ELSE Err("JobHasNoLog", "", << >>)
    ELSE LET same == IF has_log(pipeline.status)
                       THEN FindFirst(StatusHits(jobs, pipeline.status))
                       ELSE None
         IN IF same # None THEN Ok(same[1], << >>) ELSE Err("NoJob", "", << >>)

\* the index selected by get_job (lines 450-502), as a Result
job_index(default, pipeline, jobs) ==
  IF default # None
    THEN LET f == FindFirst(IdHits(jobs, default[1])) IN
         IF f = None THEN Err("JobNotInPipeline", "", << >>)
         ELSE IF has_log(jobs[f[1] + 1].status) THEN Ok(f[1], << >>)
         ELSE Err("JobHasNoLog", "", << >>)
    ELSE LET same == IF has_log(pipeline.status)
                       THEN FindFirst(StatusHits(jobs, pipeline.status))
                       ELSE None
             i == OrElse(same, FindFirstRev(Len(jobs), LogHits(jobs)))
         IN IF i # None THEN Ok(i[1], << >>) ELSE Err("NoJob", "", << >>)

get_job(default, pipeline_id, w) ==
  LET p == get_pipeline(pipeline_id, w) IN
  IF ~p.ok THEN p
  ELSE LET pipeline == p.val[1]
           q == Query("jobs", pipeline.id, w.jobsDown, TRUE, Jobs(w.jobs))
       IN IF ~q.ok THEN Err(q.err, q.cause, p.calls \o q.calls)
          ELSE LET jobs == q.val[1]
                   i == job_index(default, pipeline, jobs)
               IN IF ~i.ok THEN Err(i.err, i.cause, p.calls \o q.calls)
                  ELSE Ok(take_from_vec(jobs, i.val[1])[1], p.calls \o q.calls)

(***************************************************************************)
(* State: one command invocation of the resolver                           *)
(***************************************************************************)
VARIABLES pc, op, args, world, result

rvars == <<pc, op, args, world, result>>

(***************************************************************************)
(* State: one run of print_log_lines.  cfg holds the PipelineLog flags and *)
(* the color mode, vocab the chunks (runs of segments) the job log is made *)
(* of, fuel the number of chunks the reader can still yield, log the lines *)
(* read so far, pos the position of the next segment of the current line,  *)
(* state and sections the LogContext, out the messages printed.            *)
(***************************************************************************)
VARIABLES lpc, cfg, vocab, fuel, log, pos, state, sections, show_line, out

lvars == <<lpc, cfg, vocab, fuel, log, pos, state, sections, show_line, out>>

vars == <<rvars, lvars>>

\* the renderer is not running
LogIdle ==
  /\ lpc = "idle"
  /\ cfg = << >>
  /\ vocab = {}
  /\ fuel = 0
  /\ log = << >>
  /\ pos = 0
  /\ state = << >>
  /\ sections = << >>
  /\ show_line = FALSE
  /\ out = << >>

\* the resolver is not running
ResolveIdle ==
  /\ pc = "idle"
  /\ op = "none"
  /\ args = << >>
  /\ world = << >>
  /\ result = << >>

Opt(S) == {None} \cup {Some(x) : x \in S}

Repos == [name : Opt(ProjectNames), tag : Opt(Names), branch : Names]

RefWorlds == [tags : SUBSET Names, branches : SUBSET Names,
              tagDown : BOOLEAN, branchDown : BOOLEAN]

InitResolve == ResolveIdle /\ LogIdle

GetProject ==
  /\ pc = "idle"
  /\ \E default \in Opt(ProjectNames), repo \in Repos,
        w \in [projects : SUBSET ProjectNames, projectDown : BOOLEAN] :
       /\ repo.tag = None /\ repo.branch = "main"
       /\ args' = [default |-> default, repo |-> repo]
       /\ world' = w
       /\ result' = get_project(default, repo, w)
  /\ op' = "get_project"
  /\ pc' = "done"
  /\ UNCHANGED lvars

GetRef ==
  /\ pc = "idle"
  /\ \E ref_ \in Opt(Names), repo \in Repos, w \in RefWorlds :
       /\ repo.name = None
       /\ args' = [ref_ |-> ref_, repo |-> repo]
       /\ world' = w
       /\ result' = get_ref(ref_, repo, w)
  /\ op' = "get_ref"
  /\ pc' = "done"
  /\ UNCHANGED lvars

CheckRef ==
  /\ pc = "idle"
  /\ \E ref_ \in Opt(Names), repo \in Repos, w \in RefWorlds :
       /\ repo.name = None
       /\ args' = [ref_ |-> ref_, repo |-> repo]
       /\ world' = w
       /\ result' = check_ref(ref_, repo, w)
  /\ op' = "check_ref"
  /\ pc' = "done"
  /\ UNCHANGED lvars

\* the answers of the pipeline queries that one invocation can observe: a
\* query that is down has no answer, and only the query made has one
PipelineWorlds(default, n) ==
  {w \in [fetched : IF default # None THEN Opt(StatusState) ELSE {None},
          listed : IF default = None THEN SeqUpTo(StatusState, n) ELSE {<< >>},
          pipelineDown : BOOLEAN] :
     w.pipelineDown => (w.fetched = None /\ w.listed = << >>)}

JobsWorlds(pw) ==
  {w \in [jobs : IF pw.pipelineDown THEN {<< >>} ELSE SeqUpTo(StatusState, MaxJobs),
          jobsDown : IF pw.pipelineDown THEN {FALSE} ELSE BOOLEAN] :
     w.jobsDown => w.jobs = << >>}

GetPipeline ==
  /\ pc = "idle"
  /\ \E default \in Opt({ExplicitPipelineId}) :
       \E w \in PipelineWorlds(default, MaxPipelines) :
         /\ args' = [default |-> default]
         /\ world' = w
         /\ result' = get_pipeline(default, w)
  /\ op' = "get_pipeline"
  /\ pc' = "done"
  /\ UNCHANGED lvars

GetJob ==
  /\ pc = "idle"
  /\ \E default \in Opt(JobIds), pipeline_id \in Opt({ExplicitPipelineId}) :
       \E pw \in PipelineWorlds(pipeline_id, MaxJobPipelines) :
         \E jw \in JobsWorlds(pw) :
           LET w == [fetched |-> pw.fetched, listed |-> pw.listed,
                     pipelineDown |-> pw.pipelineDown,
                     jobs |-> jw.jobs, jobsDown |-> jw.jobsDown]
           IN /\ args' = [default |-> default, pipeline_id |-> pipeline_id]
              /\ world' = w
              /\ result' = get_job(default, pipeline_id, w)
  /\ op' = "get_job"
  /\ pc' = "done"
  /\ UNCHANGED lvars

NextResolve ==
  \/ GetProject
  \/ GetRef
  \/ CheckRef
  \/ GetPipeline
  \/ GetJob

SpecResolve == InitResolve /\ [][NextResolve]_vars

(***************************************************************************)
(* CliContext::print_log_lines                                             *)
(***************************************************************************)
SegText == << "t" >>

SegStartF ==
  << "section_start", ":", "1", ":", "f", "[", "collapsed=true", "]", "CR" >>

SegStartB == << "section_start", ":", "2", ":", "b", "CR" >>

SegEndF ==
  << "section_end", ":", "5", ":", "f", "[", "collapsed=true", "]", "CR" >>

SegEndB == << "section_end", ":", "9", ":", "b", "CR" >>

SegBadTimestamp == << "section_start", ":", "x", ":", "f", "CR" >>

\* a marker without a name: two fields
SegTwoFields == << "section_start", ":", "1", "CR" >>

\* a marker whose name has its ']' before its '['
SegBracketsReversed == << "section_start", ":", "1", ":", "f", "]", "x", "[", "CR" >>

\* a collapsed section whose name does not contain the --section argument
SegStartC ==
  << "section_start", ":", "3", ":", "c", "[", "collapsed=true", "]", "CR" >>

SegEndC ==
  << "section_end", ":", "6", ":", "c", "[", "collapsed=true", "]", "CR" >>

\* the segment that follows a section marker on its line
SegTitle == << "title" >>

\* the text segments yew_ansi::get_sgr_segments can yield
Segments ==
  {SegText, SegTitle, SegStartF, SegStartB, SegStartC, SegEndF, SegEndB, SegEndC,
   SegBadTimestamp, SegTwoFields, SegBracketsReversed}

\* a chunk of one segment for each text
Singles(texts) == {<< s >> : s \in texts}

RECURSIVE Concat(_)
Concat(chunks) ==
  IF chunks = << >> THEN << >> ELSE Head(chunks) \o Concat(Tail(chunks))

LogText == [tag |-> "Text"]

LogSection(section) == [tag |-> "Section", section |-> section]

\* LogContext::default and the flags of one run
InitLog(flags, texts) ==
  /\ ResolveIdle
  /\ lpc = "read"
  /\ cfg \in flags
  /\ vocab = texts
  /\ fuel = MaxSegs
  /\ log = << >>
  /\ pos = 0
  /\ state = LogText
  /\ sections = << >>
  /\ show_line = FALSE
  /\ out = << >>

HeadersRequested == cfg.all \/ cfg.headers \/ cfg.only_headers

\* messages printed
SegmentMsg(l, i, s) == [k |-> "segment", line |-> l, seg |-> i, text |-> s]

RawLineMsg(l) == [k |-> "rawline", line |-> l]

NewlineMsg(l) == [k |-> "newline", line |-> l]

\* print_section: "> title [name] ", with a newline when the line is shown
HeaderMsg(title, section, shown) ==
  [k |-> "header", title |-> title, name |-> section.name, newline |-> shown]

\* "< [duration]": the duration is kept in seconds
DurationMsg(seconds) == [k |-> "duration", seconds |-> seconds]

CurLine == log[Len(log)]

CurSeg == CurLine[pos]

\* the inner for loop moves to the next segment, or the line is finished
NextSegment ==
  IF pos < Len(CurLine)
    THEN pos' = pos + 1 /\ lpc' = "segs"
    ELSE pos' = pos /\ lpc' = "eol"

\* mutant: the LogContext is made anew for every line
ReadLine_ResetState ==
  /\ lpc = "read"
  /\ Len(log) < MaxLines
  /\ \E chunks \in SeqUpTo(vocab, MaxLineSegs) :
       /\ Len(chunks) <= fuel
       /\ fuel' = fuel - Len(chunks)
       /\ log' = Append(log, Concat(chunks))
       /\ lpc' = IF chunks = << >> THEN "eol" ELSE "segs"
  /\ pos' = 1
  /\ state' = LogText
  /\ show_line' = show_line_of(sections, cfg)
  /\ UNCHANGED <<cfg, vocab, sections, out, rvars>>

\* reader.next() yields a line, made of at most MaxLineSegs chunks of the
\* log's vocabulary: show_line is evaluated for the line
ReadLine ==
  /\ lpc = "read"
  /\ Len(log) < MaxLines
  /\ \E chunks \in SeqUpTo(vocab, MaxLineSegs) :
       /\ Len(chunks) <= fuel
       /\ fuel' = fuel - Len(chunks)
       /\ log' = Append(log, Concat(chunks))
       /\ lpc' = IF chunks = << >> THEN "eol" ELSE "segs"
  /\ pos' = 1
  /\ show_line' = show_line_of(sections, cfg)
  /\ UNCHANGED <<cfg, vocab, state, sections, out, rvars>>

\* reader.next() yields None: the function returns Ok
EndOfInput ==
  /\ lpc = "read"
  /\ lpc' = "done"
  /\ UNCHANGED <<cfg, vocab, fuel, log, pos, state, sections, show_line, out, rvars>>

\* reader.next() yields Some(Err(_)) (a line that is not UTF-8): the while let
\* loop ends and the function returns Ok
InvalidLine ==
  /\ lpc = "read"
  /\ lpc' = "cut"
  /\ UNCHANGED <<cfg, vocab, fuel, log, pos, state, sections, show_line, out, rvars>>

\* a segment met in LogState::Text
TextSegment ==
  /\ lpc = "segs"
  /\ state.tag = "Text"
  /\ LET r == Section_from_str(CurSeg) IN
     IF r.tag = "Panic"
       THEN /\ lpc' = "panic"
            /\ UNCHANGED <<pos, state, out>>
       ELSE /\ state' = IF r.tag = "Ok" THEN LogSection(r.section) ELSE state
            /\ out' = IF r.tag = "Err" /\ show_line /\ ~cfg.colored
                        THEN Append(out, SegmentMsg(Len(log), pos, CurSeg))
                        ELSE out
            /\ NextSegment
  /\ UNCHANGED <<cfg, vocab, fuel, log, sections, show_line, rvars>>

\* mutant: in plain mode show_line is not evaluated again after the open
SectionStart_NoReevaluation ==
  /\ lpc = "segs"
  /\ state.tag = "Section"
  /\ state.section.type_ = "Start"
  /\ LET pushed == Append(sections, state.section)
         shown == show_line
     IN /\ sections' = pushed
        /\ out' = out
             \o (IF HeadersRequested
                   THEN << HeaderMsg(CurSeg, state.section, shown) >> ELSE << >>)
             \o (IF cfg.colored /\ shown THEN << NewlineMsg(Len(log)) >> ELSE << >>)
        /\ show_line' = IF cfg.colored THEN FALSE ELSE shown
  /\ state' = LogText
  /\ NextSegment
  /\ UNCHANGED <<cfg, vocab, fuel, log, rvars>>

\* mutant: the header is printed only for a section whose lines are shown
SectionStart_HeaderWhenShown ==
  /\ lpc = "segs"
  /\ state.tag = "Section"
  /\ state.section.type_ = "Start"
  /\ LET pushed == Append(sections, state.section)
         shown == show_line_of(pushed, cfg)
     IN /\ sections' = pushed
        /\ out' = out
             \o (IF HeadersRequested /\ shown
                   THEN << HeaderMsg(CurSeg, state.section, shown) >> ELSE << >>)
             \o (IF cfg.colored /\ shown THEN << NewlineMsg(Len(log)) >> ELSE << >>)
        /\ show_line' = IF cfg.colored THEN FALSE ELSE shown
  /\ state' = LogText
  /\ NextSegment
  /\ UNCHANGED <<cfg, vocab, fuel, log, rvars>>

\* a segment met in LogState::Section with a pending section_start
SectionStart ==
  /\ lpc = "segs"
  /\ state.tag = "Section"
  /\ state.section.type_ = "Start"
  /\ LET pushed == Append(sections, state.section)
         shown == show_line_of(pushed, cfg)
     IN /\ sections' = pushed
        /\ out' = out
             \o (IF HeadersRequested
                   THEN << HeaderMsg(CurSeg, state.section, shown) >> ELSE << >>)
             \o (IF cfg.colored /\ shown THEN << NewlineMsg(Len(log)) >> ELSE << >>)
        /\ show_line' = IF cfg.colored THEN FALSE ELSE shown
  /\ state' = LogText
  /\ NextSegment
  /\ UNCHANGED <<cfg, vocab, fuel, log, rvars>>

\* mutant: a close without an open section prints the time of the close
SectionEnd_UnderflowDuration ==
  /\ lpc = "segs"
  /\ state.tag = "Section"
  /\ state.section.type_ = "End"
  /\ LET prev_section == IF sections = << >> THEN Some([timestamp |-> 0])
                         ELSE Some(sections[Len(sections)])
         popped == IF sections = << >> THEN << >>
                   ELSE SubSeq(sections, 1, Len(sections) - 1)
         r == Section_from_str(CurSeg)
     IN /\ sections' = popped
        /\ out' = out
             \o (IF HeadersRequested /\ prev_section # None
                   THEN << DurationMsg(state.section.timestamp
                                         - prev_section[1].timestamp) >>
                   ELSE << >>)
        /\ IF r.tag = "Panic"
             THEN /\ lpc' = "panic"
                  /\ show_line' = show_line_of(popped, cfg)
                  /\ UNCHANGED <<pos, state>>
             ELSE /\ state' = IF r.tag = "Ok" THEN LogSection(r.section) ELSE LogText
                  /\ show_line' = IF cfg.colored THEN FALSE
                                  ELSE show_line_of(popped, cfg)
                  /\ NextSegment
  /\ UNCHANGED <<cfg, vocab, fuel, log, rvars>>

\* mutant: the duration is counted from the open of the outermost section
SectionEnd_FromOutermost ==
  /\ lpc = "segs"
  /\ state.tag = "Section"
  /\ state.section.type_ = "End"
  /\ LET prev_section == IF sections = << >> THEN None
                         ELSE Some(sections[1])
         popped == IF sections = << >> THEN << >>
                   ELSE SubSeq(sections, 1, Len(sections) - 1)
         r == Section_from_str(CurSeg)
     IN /\ sections' = popped
        /\ out' = out
             \o (IF HeadersRequested /\ prev_section # None
                   THEN << DurationMsg(state.section.timestamp
                                         - prev_section[1].timestamp) >>
                   ELSE << >>)
        /\ IF r.tag = "Panic"
             THEN /\ lpc' = "panic"
                  /\ show_line' = show_line_of(popped, cfg)
                  /\ UNCHANGED <<pos, state>>
             ELSE /\ state' = IF r.tag = "Ok" THEN LogSection(r.section) ELSE LogText
                  /\ show_line' = IF cfg.colored THEN FALSE
                                  ELSE show_line_of(popped, cfg)
                  /\ NextSegment
  /\ UNCHANGED <<cfg, vocab, fuel, log, rvars>>

\* a segment met in LogState::Section with a pending section_end
SectionEnd ==
  /\ lpc = "segs"
  /\ state.tag = "Section"
  /\ state.section.type_ = "End"
  /\ LET prev_section == IF sections = << >> THEN None
                         ELSE Some(sections[Len(sections)])
         popped == IF sections = << >> THEN << >>
                   ELSE SubSeq(sections, 1, Len(sections) - 1)
         r == Section_from_str(CurSeg)
     IN /\ sections' = popped
        /\ out' = out
             \o (IF HeadersRequested /\ prev_section # None
                   THEN << DurationMsg(state.section.timestamp
                                         - prev_section[1].timestamp) >>
                   ELSE << >>)
        /\ IF r.tag = "Panic"
             THEN /\ lpc' = "panic"
                  /\ show_line' = show_line_of(popped, cfg)
                  /\ UNCHANGED <<pos, state>>
             ELSE /\ state' = IF r.tag = "Ok" THEN LogSection(r.section) ELSE LogText
                  /\ show_line' = IF cfg.colored THEN FALSE
                                  ELSE show_line_of(popped, cfg)
                  /\ NextSegment
  /\ UNCHANGED <<cfg, vocab, fuel, log, rvars>>

\* mutant: the raw line is printed in plain mode too
EndLine_RawInPlain ==
  /\ lpc = "eol"
  /\ out' = IF show_line THEN Append(out, RawLineMsg(Len(log))) ELSE out
  /\ lpc' = "read"
  /\ UNCHANGED <<cfg, vocab, fuel, log, pos, state, sections, show_line, rvars>>

\* after the segments of a line: the line (colored) or a newline is printed
EndLine ==
  /\ lpc = "eol"
  /\ out' = IF show_line
              THEN Append(out, IF cfg.colored THEN RawLineMsg(Len(log))
                               ELSE NewlineMsg(Len(log)))
              ELSE out
  /\ lpc' = "read"
  /\ UNCHANGED <<cfg, vocab, fuel, log, pos, state, sections, show_line, rvars>>

NextLog ==
  \/ ReadLine
  \/ EndOfInput
  \/ InvalidLine
  \/ TextSegment
  \/ SectionStart
  \/ SectionEnd
  \/ EndLine

\* the flags of a run with --all
SectionArg == << "f" >>

ShowAllFlags ==
  [all : {TRUE}, headers : BOOLEAN, only_headers : {FALSE},
   section : {SectionArg}, colored : BOOLEAN]

\* with --all the names, flags and timestamps of the sections play no part in
\* what is shown: the log is made of text, one section and a malformed marker
ShowAllTexts == {SegText, SegStartF, SegEndF, SegBadTimestamp}

InitShowAll == InitLog(ShowAllFlags, Singles(ShowAllTexts))

SpecShowAll == InitShowAll /\ [][NextLog]_vars

\* a section marker comes with its title on the same line
Marked(marker) == << marker, SegTitle >>

\* the flags of a run with --only-headers
OnlyHeadersFlags ==
  [all : {FALSE}, headers : BOOLEAN, only_headers : {TRUE},
   section : {SectionArg}, colored : BOOLEAN]

\* text and the section f
OnlyHeadersChunks == {<< SegText >>, Marked(SegStartF), Marked(SegEndF)}

InitOnlyHeaders == InitLog(OnlyHeadersFlags, OnlyHeadersChunks)

SpecOnlyHeaders == InitOnlyHeaders /\ [][NextLog]_vars

\* the flags of a run that filters by section name, with or without --headers
CollapsedFlags ==
  [all : {FALSE}, headers : BOOLEAN, only_headers : {FALSE},
   section : {SectionArg}, colored : BOOLEAN]

\* text, the section f and, collapsed and not named by --section, the section c
CollapsedChunks ==
  {<< SegText >>, Marked(SegStartF), Marked(SegStartC), Marked(SegEndC)}

InitCollapsed == InitLog(CollapsedFlags, CollapsedChunks)

SpecCollapsed == InitCollapsed /\ [][NextLog]_vars

\* the sections f and c, opened and closed in any order
NestedChunks ==
  {Marked(SegStartF), Marked(SegStartC), Marked(SegEndC), Marked(SegEndF)}

\* the flags of a run with --headers
HeadersFlags ==
  [all : {FALSE}, headers : {TRUE}, only_headers : {FALSE},
   section : {SectionArg}, colored : BOOLEAN]

InitNested == InitLog(HeadersFlags, NestedChunks)

SpecNested == InitNested /\ [][NextLog]_vars

\* text, the section f and the malformed markers
MalformedChunks ==
  {<< SegText >>, Marked(SegStartF), Marked(SegEndF), << SegBadTimestamp >>,
   << SegTwoFields >>, << SegBracketsReversed >>}

InitMalformed == InitLog(HeadersFlags, MalformedChunks)

SpecMalformed == InitMalformed /\ [][NextLog]_vars

\* the flags of a run: none, --headers, --only-headers or --all
HeaderModes ==
  {[all |-> m[1], headers |-> m[2], only_headers |-> m[3],
    section |-> SectionArg, colored |-> c] :
     m \in {<<FALSE, FALSE, FALSE>>, <<FALSE, TRUE, FALSE>>,
            <<FALSE, FALSE, TRUE>>, <<TRUE, FALSE, FALSE>>},
     c \in BOOLEAN}

InitHeaders == InitLog(HeaderModes, OnlyHeadersChunks)

SpecHeaders == InitHeaders /\ [][NextLog]_vars

\* a run that filters by section name, on a log of text and the section f
InitLines == InitLog(CollapsedFlags, OnlyHeadersChunks)

SpecLines == InitLines /\ [][NextLog]_vars

\* text and the markers of the section f, each segment on its own: a marker
\* can be followed by text, by a marker or by the end of the line
SegmentsChunks == Singles({SegText, SegStartF, SegEndF})

InitSegments == InitLog(HeadersFlags, SegmentsChunks)

SpecSegments == InitSegments /\ [][NextLog]_vars

(***************************************************************************)
(* LogContext::show_line and Section::from_str applied to given inputs      *)
(***************************************************************************)
\* the PipelineLog flags that show_line reads
Filters ==
  [all : BOOLEAN, headers : BOOLEAN, only_headers : BOOLEAN, section : {SectionArg}]

\* open sections: the name is the --section argument, contains it, or does not
OpenSections ==
  [type_ : {"Start"}, timestamp : {1},
   name : {<< "f" >>, << "x", "f" >>, << "c" >>}, collapsed : BOOLEAN]

ShowLine ==
  /\ pc = "idle"
  /\ \E stack \in SeqUpTo(OpenSections, MaxOpen), a \in Filters :
       /\ args' = [sections |-> stack, args |-> a]
       /\ result' = show_line_of(stack, a)
  /\ op' = "show_line"
  /\ pc' = "done"
  /\ UNCHANGED <<world, lvars>>

\* what a segment starts with
Prefixes ==
  {<< "section_start" >>, << "section_end" >>, << "section" >>,
   << " ", "section_start" >>}

\* the text between the first and the second colon, with the integer it
\* denotes if it denotes one
TimestampFields ==
  {[text |-> << "1" >>, value |-> Some(1)],
   [text |-> << "1", "2" >>, value |-> Some(12)],
   [text |-> << "-", "5" >>, value |-> Some(0 - 5)],
   [text |-> << "x" >>, value |-> None],
   [text |-> << >>, value |-> None]}

\* what the text after the second colon is made of
NameTokens == {"f", "[", "]", "collapsed=true", ":"}

\* the segment made of a prefix, a timestamp field and a name, with or without
\* the carriage return that ends a marker
Segment(prefix, field, name, cr) ==
  prefix \o << ":" >> \o field.text \o << ":" >> \o name
    \o (IF cr THEN << "CR" >> ELSE << >>)

ParseSegment ==
  /\ pc = "idle"
  /\ \E prefix \in Prefixes, field \in TimestampFields,
        name \in SeqUpTo(NameTokens, MaxName), cr \in BOOLEAN :
       /\ args' = [prefix |-> prefix, field |-> field, name |-> name, cr |-> cr]
       /\ result' = Section_from_str(Segment(prefix, field, name, cr))
  /\ op' = "from_str"
  /\ pc' = "done"
  /\ UNCHANGED <<world, lvars>>

StatusStyle ==
  /\ pc = "idle"
  /\ \E status \in StatusState :
       /\ args' = [status |-> status]
       /\ result' = [style |-> status_style(status), has_log |-> has_log(status)]
  /\ op' = "status_style"
  /\ pc' = "done"
  /\ UNCHANGED <<world, lvars>>

NextFunctions == ShowLine \/ ParseSegment \/ StatusStyle

SpecFunctions == InitResolve /\ [][NextFunctions]_vars

(***************************************************************************)
(* Properties of the resolver, checked under SpecResolve                   *)
(***************************************************************************)
Done(o) == pc = "done" /\ op = o

\* the pipeline the remote answers with, read from the world, if it answers
PipelineAnswered ==
  /\ ~world.pipelineDown
  /\ IF args.pipeline_id # None THEN world.fetched # None ELSE world.listed # << >>

AnsweredStatus ==
  IF args.pipeline_id # None THEN world.fetched[1] ELSE world.listed[1]

\* get_job got a pipeline and a job list from the remote
JobsListed == Done("get_job") /\ PipelineAnswered /\ ~world.jobsDown

TheJobs == Jobs(world.jobs)

SameStatusJobs ==
  {k \in 1..Len(TheJobs) : has_log(AnsweredStatus) /\ TheJobs[k].status = AnsweredStatus}

HasLogJobs == {k \in 1..Len(TheJobs) : has_log(TheJobs[k].status)}

Min(S) == CHOOSE k \in S : \A h \in S : k <= h

Max(S) == CHOOSE k \in S : \A h \in S : k >= h

\* C1 (as claimed): without an explicit job id, when no listed job has the
\* status of a has-log pipeline, the job returned is the LAST listed job whose
\* status has a log.
C1_FallbackReturnsLastHasLog ==
  (JobsListed /\ args.default = None /\ SameStatusJobs = {} /\ HasLogJobs # {})
    => (result.ok /\ result.val[1] = TheJobs[Max(HasLogJobs)])

\* C2: without an explicit job id, when the pipeline status has a log and some
\* listed job has that status, the job returned is the FIRST such job in API
\* order.
C2_FirstJobWithPipelineStatus ==
  (JobsListed /\ args.default = None /\ SameStatusJobs # {})
    => (result.ok /\ result.val[1] = TheJobs[Min(SameStatusJobs)])

\* several listed jobs have the status of the pipeline (as in pipeline
\* Running, jobs [Running, Running]): the first of them is returned
C2_Witness ==
  /\ JobsListed /\ args.default = None
  /\ Cardinality(SameStatusJobs) >= 2
  /\ result.ok /\ result.val[1].id = JobIdBase + Min(SameStatusJobs)

WithId == {k \in 1..Len(TheJobs) : TheJobs[k].id = args.default[1]}

\* C3: with an explicit job id, get_job fails with JobNotInPipeline when no
\* listed job has the id, else with JobHasNoLog when that job's status has no
\* log, and otherwise returns exactly the job with that id.
C3_ExplicitJobId ==
  (JobsListed /\ args.default # None)
    => IF WithId = {} THEN ~result.ok /\ result.err = "JobNotInPipeline"
       ELSE IF ~has_log(TheJobs[Min(WithId)].status)
         THEN ~result.ok /\ result.err = "JobHasNoLog"
         ELSE result.ok /\ result.val[1] = TheJobs[Min(WithId)]
                        /\ result.val[1].id = args.default[1]

\* the job asked for is listed after another job and has no log
C3_Witness ==
  /\ JobsListed /\ args.default = Some(JobIdBase + 2)
  /\ Len(TheJobs) >= 2 /\ ~has_log(TheJobs[2].status)
  /\ result.err = "JobHasNoLog"

\* the tag (branch) query for name n is answered with a tag (branch)
TagAnswers(n) == ~world.tagDown /\ n \in world.tags

BranchAnswers(n) == ~world.branchDown /\ n \in world.branches

CallKinds(r) == {r.calls[k][1] : k \in 1..Len(r.calls)}

\* C4: with no explicit ref and local hint N, when the remote answers both the
\* tag query and the branch query for N, get_ref returns the ref found by the
\* tag query and makes no branch query; a branch query is only ever made after
\* a failed tag lookup.
C4_TagPreferred ==
  Done("get_ref") =>
    /\ (/\ args.ref_ = None /\ args.repo.tag # None
        /\ args.repo.tag[1] = args.repo.branch
        /\ TagAnswers(args.repo.branch) /\ BranchAnswers(args.repo.branch))
         => /\ result.ok /\ result.val[1] = args.repo.branch
            /\ result.calls = << <<"tag", args.repo.branch, "ok">> >>
    /\ "branch" \in CallKinds(result)
         => ~get_tag(args.ref_, args.repo, world).ok

C4_Witness ==
  /\ Done("get_ref") /\ args.ref_ = None
  /\ args.repo.tag = Some("v1") /\ args.repo.branch = "v1"
  /\ TagAnswers("v1") /\ BranchAnswers("v1")
  /\ result.ok /\ result.val[1] = "v1"

\* C5: check_ref with an explicit ref E fails with RefDiverged whenever get_ref
\* resolves to a name different from E; when it succeeds with an explicit E the
\* name returned is E; without an explicit ref it never fails with RefDiverged.
C5_StrictDivergence ==
  Done("check_ref") =>
    LET r == get_ref(args.ref_, args.repo, world) IN
    /\ (args.ref_ # None /\ r.ok /\ r.val[1] # args.ref_[1])
         => (~result.ok /\ result.err = "RefDiverged")
    /\ (args.ref_ # None /\ result.ok) => result.val[1] = args.ref_[1]
    /\ args.ref_ = None => result.err # "RefDiverged"

\* explicit v1, and the only ref that resolves is the branch v2
C5_Witness ==
  /\ Done("check_ref") /\ args.ref_ = Some("v1")
  /\ world.tags = {} /\ world.branches = {"v2"} /\ args.repo.branch = "v2"
  /\ ~world.tagDown /\ ~world.branchDown
  /\ result.err = "RefDiverged"

\* C6 (as claimed): with an explicit name N, when the tag lookup for N fails
\* and the remote has a branch named N, get_ref returns the branch N whatever
\* the local branch is.
C6_BranchFallbackUsesExplicit ==
  (/\ Done("get_ref") /\ args.ref_ # None
   /\ ~TagAnswers(args.ref_[1]) /\ BranchAnswers(args.ref_[1]))
    => (result.ok /\ result.val[1] = args.ref_[1])

\* C7: with an explicit id get_pipeline fetches that pipeline and never lists;
\* without one it returns the first listed pipeline, and fails with NoPipeline
\* when the list is empty.
C7_PipelineResolution ==
  Done("get_pipeline") =>
    /\ args.default # None =>
         /\ result.calls # << >> /\ CallKinds(result) = {"pipeline"}
         /\ result.calls[1][2] = args.default[1]
         /\ (~world.pipelineDown /\ world.fetched # None)
              => (result.ok /\ result.val[1].id = args.default[1]
                            /\ result.val[1].status = world.fetched[1])
    /\ (args.default = None /\ ~world.pipelineDown) =>
         IF world.listed = << >>
           THEN ~result.ok /\ result.err = "NoPipeline"
           ELSE result.ok /\ result.val[1] = Listed(world.listed)[1]

\* two pipelines listed with different statuses: the first one is returned
C7_Witness ==
  /\ Done("get_pipeline") /\ args.default = None
  /\ Len(world.listed) = 2 /\ world.listed[1] # world.listed[2]
  /\ result.ok /\ result.val[1].id = ListedPipelineBase + 1

\* C8: get_project looks up the explicit project when given, else the local
\* hint; with neither it fails with NoProject without any backend call.
C8_ProjectResolution ==
  Done("get_project") =>
    /\ args.default # None
         => (Len(result.calls) = 1 /\ result.calls[1][2] = args.default[1])
    /\ (args.default = None /\ args.repo.name # None)
         => (Len(result.calls) = 1 /\ result.calls[1][2] = args.repo.name[1])
    /\ (args.default = None /\ args.repo.name = None)
         => (~result.ok /\ result.err = "NoProject" /\ result.calls = << >>)
    /\ result.ok => result.val[1] = result.calls[1][2]

\* explicit project and a different local hint: the explicit one is looked up
C8_Witness ==
  /\ Done("get_project") /\ args.default = Some("grp/lib")
  /\ args.repo.name = Some("grp/app")
  /\ result.ok /\ result.val[1] = "grp/lib"

C8_WitnessNoProject ==
  Done("get_project") /\ result.err = "NoProject"

FailedCalls(r) == {k \in 1..Len(r.calls) : r.calls[k][3] # "ok"}

NoRetry(r) ==
  \A j, k \in 1..Len(r.calls) :
    (r.calls[j][1] = r.calls[k][1] /\ r.calls[j][2] = r.calls[k][2]) => j = k

C16_NoJob ==
  (JobsListed /\ args.default = None) =>
    IF SameStatusJobs = {} /\ HasLogJobs = {}
      THEN ~result.ok /\ result.err = "NoJob"
      ELSE /\ result.ok
           /\ \E k \in 1..Len(TheJobs) : result.val[1] = TheJobs[k]

\* the pipeline ran and none of its jobs has a log: NoJob
C16_Witness ==
  /\ JobsListed /\ args.default = None
  /\ TheJobs # << >> /\ HasLogJobs = {}
  /\ ~result.ok /\ result.err = "NoJob"

\* the job list is empty: NoJob
C16_WitnessEmpty ==
  /\ JobsListed /\ args.default = None
  /\ TheJobs = << >>
  /\ ~result.ok /\ result.err = "NoJob"

(***************************************************************************)
(* Properties of the renderer                                              *)
(***************************************************************************)
\* the segments of a log in reading order, with their position
RECURSIVE Flat(_, _)
Flat(lines, l) ==
  IF l > Len(lines) THEN << >>
  ELSE [i \in 1..Len(lines[l]) |-> [line |-> l, seg |-> i, text |-> lines[l][i]]]
         \o Flat(lines, l + 1)

\* The role of each segment by the section protocol: a section marker, the
\* title that follows a marker, or text.  mode is "Text", or the type of the
\* marker that precedes the segment; pending tells that the segment follows a
\* marker, so that the open or close of that marker happens on its line.
RECURSIVE Classify(_, _)
Classify(segs, mode) ==
  IF segs = << >> THEN << >>
  ELSE LET x == Head(segs)
           r == Section_from_str(x.text)
           marker == r.tag = "Ok" /\ mode # "Start"
           cls == IF marker THEN "marker" ELSE IF mode = "Text" THEN "text" ELSE "title"
       IN << [line |-> x.line, seg |-> x.seg, text |-> x.text, cls |-> cls,
              pending |-> mode # "Text",
              section |-> IF marker THEN r.section ELSE ParseErr] >>
          \o Classify(Tail(segs), IF marker THEN r.section.type_ ELSE "Text")

Roles == Classify(Flat(log, 1), "Text")

IsText(x) == x.cls = "text"

IsMarker(x) == x.cls = "marker"

\* the lines on which a section is opened or closed
TransitionLines(roles) ==
  {roles[k].line : k \in {j \in 1..Len(roles) : roles[j].pending}}

\* section markers are strictly nested: every end closes the innermost open
\* section of the same name, and none is left open
RECURSIVE Nested(_, _)
Nested(markers, open) ==
  IF markers = << >> THEN open = << >>
  ELSE LET m == Head(markers).section IN
       IF m.type_ = "Start" THEN Nested(Tail(markers), Append(open, m.name))
       ELSE /\ open # << >>
            /\ open[Len(open)] = m.name
            /\ Nested(Tail(markers), SubSeq(open, 1, Len(open) - 1))

Balanced == Nested(SelectSeq(Roles, IsMarker), << >>)

IsSegmentMsg(m) == m.k = "segment"

IsRawLineMsg(m) == m.k = "rawline"

Count(seq, m) == Cardinality({k \in 1..Len(seq) : seq[k] = m})

\* a text segment is emitted by its own message (plain mode) or with its raw
\* line (colored mode)
Emissions(x) ==
  IF cfg.colored THEN Count(out, RawLineMsg(x.line))
  ELSE Count(out, SegmentMsg(x.line, x.seg, x.text))

\* C10 (as claimed): for a log with balanced sections rendered with show_all,
\* every segment that is neither a section marker nor a section title is
\* emitted exactly once, in plain and in colored mode.
C10_ShowAllRoundTrip ==
  (lpc = "done" /\ cfg.all) =>
    LET roles == Roles
        texts == SelectSeq(roles, IsText)
    IN Nested(SelectSeq(roles, IsMarker), << >>)
         => \A k \in 1..Len(texts) : Emissions(texts[k]) = 1

ExpectedSegments(texts) ==
  [k \in 1..Len(texts) |-> SegmentMsg(texts[k].line, texts[k].seg, texts[k].text)]

RECURSIVE ExpectedRawLines(_, _)
ExpectedRawLines(l, transitions) ==
  IF l > Len(log) THEN << >>
  ELSE (IF l \in transitions THEN << >> ELSE << RawLineMsg(l) >>)
         \o ExpectedRawLines(l + 1, transitions)

\* C10 (amended): with show_all, after each line, plain mode has emitted every
\* segment that is neither a marker nor a title exactly once and in order, and
\* no raw line; colored mode has emitted exactly once and in order every raw
\* line on which no section is opened or closed, no other raw line, and no
\* segment on its own.
C10_ShowAllEmitsText ==
  (lpc \in {"read", "done", "cut"} /\ cfg.all) =>
    LET roles == Roles IN
    IF cfg.colored
      THEN /\ SelectSeq(out, IsRawLineMsg) = ExpectedRawLines(1, TransitionLines(roles))
           /\ SelectSeq(out, IsSegmentMsg) = << >>
      ELSE /\ SelectSeq(out, IsSegmentMsg) = ExpectedSegments(SelectSeq(roles, IsText))
           /\ SelectSeq(out, IsRawLineMsg) = << >>

\* a balanced section with text inside, rendered to the end in colored mode:
\* the line of the text is emitted, the line of the section title is not
C10_Witness ==
  /\ lpc = "done" /\ cfg.all /\ cfg.colored /\ Balanced
  /\ log = << << SegStartF, SegText >>, << SegText, SegEndF >> >>
  /\ SelectSeq(out, IsRawLineMsg) = << RawLineMsg(2) >>

\* the same log in plain mode: the text segment is emitted, the title is not
C10_WitnessPlain ==
  /\ lpc = "done" /\ cfg.all /\ ~cfg.colored
  /\ log = << << SegStartF, SegText >>, << SegText, SegEndF >> >>
  /\ SelectSeq(out, IsSegmentMsg) = << SegmentMsg(2, 1, SegText) >>

IsHeaderMsg(m) == m.k = "header"

IsDurationMsg(m) == m.k = "duration"

IsAnnotation(m) == IsHeaderMsg(m) \/ IsDurationMsg(m)

\* a segment or a raw line of the log
IsTextMsg(m) == IsSegmentMsg(m) \/ IsRawLineMsg(m)

\* the log is one section: it starts with the marker of the open and ends with
\* the title of the close, and the markers between are none
SingleSection(roles) ==
  LET markers == SelectSeq(roles, IsMarker) IN
  /\ Len(markers) = 2
  /\ Nested(markers, << >>)
  /\ log[1] # << >> /\ log[Len(log)] # << >>
  /\ roles[1].cls = "marker"
  /\ roles[Len(roles) - 1].cls = "marker"
  /\ roles[Len(roles)].cls = "title"

\* with --only-headers and without --all, a log that is one section gives the
\* header of the open and the duration of the close, and no text
OnlyHeadersOfSingleSection ==
  (lpc = "done" /\ cfg.only_headers /\ ~cfg.all /\ log # << >>) =>
    LET roles == Roles IN
    SingleSection(roles) =>
      /\ Len(SelectSeq(out, IsHeaderMsg)) = 1
      /\ Len(SelectSeq(out, IsDurationMsg)) = 1
      /\ SelectSeq(out, IsTextMsg) = << >>

\* a step taken with an open section, before or after it, prints no segment
\* and no raw line
NoTextWhileOpen ==
  (sections # << >> \/ sections' # << >>) =>
    SelectSeq(out', IsTextMsg) = SelectSeq(out, IsTextMsg)

\* C11: with show_only_headers and without show_all, rendering a balanced
\* single-section log emits exactly two annotations (the header of the open
\* and the duration of the close) and no text; in general no text segment and
\* no raw line is emitted while at least one section is open.
C11_OnlyHeaders ==
  /\ []OnlyHeadersOfSingleSection
  /\ [][(cfg.only_headers /\ ~cfg.all) => NoTextWhileOpen]_vars

\* the section f with text inside it, rendered to the end with
\* --only-headers: the header and the duration are all that is printed
C11_Witness ==
  /\ lpc = "done" /\ cfg.only_headers /\ ~cfg.all /\ cfg.colored
  /\ log = << Marked(SegStartF), << SegText >> \o Marked(SegEndF) >>
  /\ sections = << >>
  /\ SelectSeq(out, IsAnnotation)
       = << HeaderMsg(SegTitle, [name |-> << "f" >>], FALSE), DurationMsg(4) >>

\* some open section is collapsed and not named by --section
HiddenOpen ==
  \E k \in 1..Len(sections) :
    sections[k].collapsed /\ ~Contains(sections[k].name, cfg.section)

\* the messages printed by a step
Printed == SubSeq(out', Len(out) + 1, Len(out'))

\* C12: with show_all=false, while some open section is collapsed and its
\* name does not contain name_substring, no text of the log is shown, with or
\* without show_headers and even when an enclosing open section is named by
\* name_substring: only header and duration annotations are printed.
C12_CollapsedSuppression ==
  [][(~cfg.all /\ HiddenOpen) =>
       /\ SubSeq(out', 1, Len(out)) = out
       /\ \A i \in 1..Len(Printed) : IsAnnotation(Printed[i])]_vars

\* text inside the collapsed section c, itself inside the section f that
\* --section names, rendered with --headers: the two headers are printed and
\* the text is not
C12_Witness ==
  /\ lpc = "done" /\ cfg.headers /\ ~cfg.all /\ ~cfg.colored
  /\ log = << Marked(SegStartF), Marked(SegStartC) \o << SegText >> >>
  /\ HiddenOpen /\ Len(sections) = 2
  /\ Len(SelectSeq(out, IsHeaderMsg)) = 2
  /\ SelectSeq(out, IsTextMsg) = << >>

\* the number of segments of the log that the loop has gone through
Processed ==
  IF lpc = "segs" \/ lpc = "panic"
    THEN Len(Concat(SubSeq(log, 1, Len(log) - 1))) + pos - 1
    ELSE Len(Concat(log))

\* the sections of the markers whose open or close has been processed: the
\* segment after the marker has been gone through
ProcessedMarkers(roles) ==
  LET markers == SelectSeq(SubSeq(roles, 1, Processed - 1), IsMarker)
  IN [n \in 1..Len(markers) |-> markers[n].section]

\* The section protocol: a start opens a section inside the open ones, an end
\* closes the innermost open section, which has its name.  nested tells that
\* the markers follow the protocol, open is the sections left open, durations
\* the time from its own open to its close of each section closed.
RECURSIVE Walk(_, _, _)
Walk(markers, open, durations) ==
  IF markers = << >>
    THEN [nested |-> TRUE, open |-> open, durations |-> durations]
  ELSE LET m == Head(markers) IN
       IF m.type_ = "Start" THEN Walk(Tail(markers), Append(open, m), durations)
       ELSE IF open = << >> \/ open[Len(open)].name # m.name
         THEN [nested |-> FALSE, open |-> open, durations |-> durations]
       ELSE Walk(Tail(markers), SubSeq(open, 1, Len(open) - 1),
                 Append(durations, m.timestamp - open[Len(open)].timestamp))

IsStart(section) == section.type_ = "Start"

IsEnd(section) == section.type_ = "End"

\* C13: for a log whose section markers are strictly nested, each marker
\* followed by its title, the depth of the section stack after each marker is
\* the number of opens minus the number of closes processed so far, the stack
\* is empty at the end of a balanced log, and each duration annotation is
\* counted from the open of the section that is closed.
C13_NestedBalance ==
  LET roles == Roles
      markers == ProcessedMarkers(roles)
      w == Walk(markers, << >>, << >>)
  IN w.nested =>
       /\ Len(sections) = Len(SelectSeq(markers, IsStart)) - Len(SelectSeq(markers, IsEnd))
       /\ sections = w.open
       /\ (lpc = "done" /\ state.tag = "Text"
             /\ Nested(SelectSeq(roles, IsMarker), << >>)) => sections = << >>
       /\ HeadersRequested =>
            SelectSeq(out, IsDurationMsg)
              = [k \in 1..Len(w.durations) |-> DurationMsg(w.durations[k])]

\* f opens, c opens inside f, c closes, f closes, rendered to the end with
\* --headers: the stack is empty and the durations are those of c and of f
C13_Witness ==
  /\ lpc = "done" /\ cfg.headers
  /\ log = << Marked(SegStartF) \o Marked(SegStartC),
              Marked(SegEndC) \o Marked(SegEndF) >>
  /\ sections = << >>
  /\ SelectSeq(out, IsDurationMsg) = << DurationMsg(3), DurationMsg(4) >>

\* c is open inside f: the depth is two
C13_WitnessDepth ==
  /\ lpc = "read" /\ Len(sections) = 2
  /\ sections[1].name = << "f" >> /\ sections[2].name = << "c" >>

\* C14: parsing a segment as a Section never panics: a segment that starts
\* with section_start: or section_end: and has a non-integer timestamp, fewer
\* than three fields or a ']' before the '[' of its name is taken as text, and
\* the rendering of the log goes on.
C14_SectionParsingTotal == lpc # "panic"

\* the sections of a stack whose name contains the name_substring of a filter
NamedIn(stack, filter) ==
  {k \in 1..Len(stack) : Contains(stack[k].name, filter.section)}

CollapsedIn(stack) == {k \in 1..Len(stack) : stack[k].collapsed}

\* C15: show_line is true iff show_all, or (show_headers or
\* show_only_headers) and the stack is empty, or show_only_headers is false
\* and every open section is not collapsed or named by name_substring and at
\* least one open section is named by name_substring.
C15_VisibilityRule ==
  Done("show_line") =>
    LET stack == args.sections
        filter == args.args
        named == NamedIn(stack, filter)
    IN result <=>
         \/ filter.all
         \/ (filter.headers \/ filter.only_headers) /\ stack = << >>
         \/ /\ ~filter.only_headers
            /\ CollapsedIn(stack) \subseteq named
            /\ named # {}

\* a collapsed section named by name_substring inside one that is neither:
\* the line is shown without any flag
C15_Witness ==
  /\ Done("show_line") /\ result
  /\ ~args.args.all /\ ~args.args.headers /\ ~args.args.only_headers
  /\ Len(args.sections) = 2
  /\ ~args.sections[1].collapsed /\ args.sections[1].name = << "c" >>
  /\ args.sections[2].collapsed /\ args.sections[2].name = << "x", "f" >>

\* with --headers and a section open that name_substring does not name, the
\* line is hidden
C15_WitnessHidden ==
  /\ Done("show_line") /\ ~result
  /\ args.args.headers /\ ~args.args.only_headers
  /\ Len(args.sections) = 1 /\ args.sections[1].name = << "c" >>

\* the loop is about to process a close while no section is open
CloseOnEmptyStack ==
  /\ lpc = "segs" /\ state.tag = "Section" /\ state.section.type_ = "End"
  /\ sections = << >>

\* C17: a section close processed while the stack is empty leaves the stack
\* empty, prints no duration annotation and raises no error, and leaves the
\* LogContext as it is before any section: the lines that follow are rendered
\* as if the close had not occurred.
C17_StackUnderflow ==
  [][CloseOnEmptyStack =>
       /\ sections' = << >>
       /\ out' = out
       /\ lpc' \in {"segs", "eol"}
       /\ state' = LogText
       /\ ~cfg.colored => show_line' = show_line_of(<< >>, cfg)]_vars

\* the close of c, never opened, and then a line of text, rendered to the end
\* with --headers: no duration is printed and the text is
C17_Witness ==
  /\ lpc = "done" /\ cfg.headers /\ ~cfg.colored
  /\ log = << Marked(SegEndC), << SegText >> >>
  /\ sections = << >>
  /\ SelectSeq(out, IsDurationMsg) = << >>
  /\ SelectSeq(out, IsTextMsg) = << SegmentMsg(2, 1, SegText) >>

\* the position of the last occurrence of a token
FindLast(s, c) ==
  LET at == {k \in 1..Len(s) : s[k] = c} IN
  IF at = {} THEN None ELSE Some(CHOOSE a \in at : \A k \in at : a >= k)

\* the prefix is the literal of a marker, and the kind it stands for
KindOf(prefix) ==
  IF prefix = << "section_start" >> THEN Some("Start")
  ELSE IF prefix = << "section_end" >> THEN Some("End")
  ELSE None

\* C18 (as claimed): a segment is parsed as a Section only if it starts with
\* section_start: or section_end:; the kind is Start or End accordingly, the
\* timestamp is the integer between the first and the second colon, the name
\* is the remainder up to a trailing bracketed flag block, and collapsed is
\* true iff that flag block is exactly collapsed=true.
C18_SectionHeaderFields ==
  (Done("from_str") /\ result.tag = "Ok") =>
    LET name == args.name
        open == FindLast(name, "[")
        trailing == name # << >> /\ name[Len(name)] = "]" /\ open # None
    IN /\ KindOf(args.prefix) = Some(result.section.type_)
       /\ args.field.value = Some(result.section.timestamp)
       /\ result.section.name
            = (IF trailing THEN SubSeq(name, 1, open[1] - 1) ELSE name)
       /\ result.section.collapsed
            <=> (trailing /\ SubSeq(name, open[1] + 1, Len(name) - 1)
                               = << "collapsed=true" >>)

\* C18 (amended): a segment is parsed as a Section only if it starts with
\* section_start: or section_end: and has an integer between its first and
\* second colon; the kind is Start or End accordingly and the timestamp is
\* that integer; when the remainder has a '[' and a ']', the name is the text
\* before the first '[' and collapsed is true iff the text between the first
\* '[' and the first ']' is exactly collapsed=true, whatever follows the ']';
\* otherwise the name is the remainder and collapsed is false.
C18_SectionFieldsFirstBrackets ==
  (Done("from_str") /\ result.tag = "Ok") =>
    LET name == args.name
        opens == {k \in 1..Len(name) : name[k] = "["}
        closes == {k \in 1..Len(name) : name[k] = "]"}
        flagged == opens # {} /\ closes # {}
        i == Min(opens)
        j == Min(closes)
    IN /\ KindOf(args.prefix) = Some(result.section.type_)
       /\ args.field.value = Some(result.section.timestamp)
       /\ result.section.name = (IF flagged THEN SubSeq(name, 1, i - 1) ELSE name)
       /\ result.section.collapsed
            <=> (flagged /\ SubSeq(name, i + 1, j - 1) = << "collapsed=true" >>)

\* section_end:12:f[collapsed=true] with its carriage return: an End of
\* timestamp 12 and name f, collapsed
C18_Witness ==
  /\ Done("from_str") /\ result.tag = "Ok"
  /\ args.prefix = << "section_end" >> /\ args.field.text = << "1", "2" >>
  /\ args.name = << "f", "[", "collapsed=true", "]" >> /\ args.cr
  /\ result.section = [type_ |-> "End", timestamp |-> 12, name |-> << "f" >>,
                        collapsed |-> TRUE]

\* section_start:1:f[f]: a flag block that is not collapsed=true
C18_WitnessOtherFlag ==
  /\ Done("from_str") /\ result.tag = "Ok"
  /\ args.name = << "f", "[", "f", "]" >>
  /\ result.section.name = << "f" >> /\ ~result.section.collapsed

\* the loop is about to process the open of a section
OpenPending ==
  lpc = "segs" /\ state.tag = "Section" /\ state.section.type_ = "Start"

\* the titles of the opens: the segments that follow a section_start marker
OpenTitles(roles) ==
  {k \in 2..Len(roles) :
     /\ roles[k].pending
     /\ roles[k - 1].section.type_ = "Start"
     /\ k <= Processed}

\* C19: on every section open the header annotation, with the title and the
\* name of the section, is printed iff show_all, show_headers or
\* show_only_headers is set, whether or not the lines of the section are
\* shown; the title segment is never printed as text.
C19_HeaderAnnotation ==
  /\ [][OpenPending =>
          /\ SelectSeq(Printed, IsHeaderMsg)
               = (IF cfg.all \/ cfg.headers \/ cfg.only_headers
                    THEN << [k |-> "header", title |-> CurSeg,
                             name |-> state.section.name,
                             newline |-> show_line_of(sections', cfg)] >>
                    ELSE << >>)
          /\ SelectSeq(Printed, IsTextMsg) = << >>]_vars
  /\ [](LET roles == Roles IN
        \A k \in OpenTitles(roles) :
          /\ Count(out, SegmentMsg(roles[k].line, roles[k].seg, roles[k].text)) = 0
          /\ Count(out, RawLineMsg(roles[k].line)) = 0)

\* the section f opened with --only-headers: its lines are hidden and its
\* header is printed
C19_Witness ==
  /\ lpc = "eol" /\ cfg.only_headers /\ ~cfg.colored
  /\ log = << Marked(SegStartF) >>
  /\ ~show_line
  /\ out = << HeaderMsg(SegTitle, [name |-> << "f" >>], FALSE) >>

\* the section f opened without any flag: its lines are shown and no header
\* is printed
C19_WitnessNoHeader ==
  /\ lpc = "eol" /\ ~HeadersRequested /\ ~cfg.colored
  /\ log = << Marked(SegStartF) >>
  /\ show_line
  /\ out = << >>

\* the loop is about to process the close of a section
ClosePending ==
  lpc = "segs" /\ state.tag = "Section" /\ state.section.type_ = "End"

\* the open sections that have the name of the section being closed
MatchingOpen == {k \in 1..Len(sections) : sections[k].name = state.section.name}

\* C20: on a section close a duration annotation is printed iff headers are
\* requested and an open section with the name of the closed section exists,
\* and its value is the timestamp of the close minus the timestamp of the
\* open of that section, for any sequence of markers.
C20_DurationOfMatchingOpen ==
  [][ClosePending =>
       SelectSeq(Printed, IsDurationMsg)
         = (IF HeadersRequested /\ MatchingOpen # {}
              THEN << DurationMsg(state.section.timestamp
                                    - sections[Max(MatchingOpen)].timestamp) >>
              ELSE << >>)]_vars

\* the loop is about to print a text segment: the segment does not parse as a
\* Section and the line is shown, in plain mode
TextShown ==
  /\ lpc = "segs" /\ state.tag = "Text"
  /\ Section_from_str(CurSeg).tag = "Err"
  /\ show_line /\ ~cfg.colored

\* C21: in colored mode a line on which a section is opened or closed is
\* never printed as a raw line and no text segment is printed on its own; in
\* plain mode no raw line is printed and each text segment that is shown is
\* printed on its own exactly once.
C21_ColorModeDiscipline ==
  /\ [](LET roles == Roles IN
        IF cfg.colored
          THEN /\ SelectSeq(out, IsSegmentMsg) = << >>
               /\ \A l \in TransitionLines(roles) : Count(out, RawLineMsg(l)) = 0
          ELSE /\ SelectSeq(out, IsRawLineMsg) = << >>
               /\ \A k \in 1..Len(roles) :
                    Count(out, SegmentMsg(roles[k].line, roles[k].seg, roles[k].text))
                      <= (IF IsText(roles[k]) THEN 1 ELSE 0))
  /\ [][TextShown => Printed = << SegmentMsg(Len(log), pos, CurSeg) >>]_vars

\* colored mode, text then the section f opened on the first line and text on
\* the second: only the second raw line is printed
C21_Witness ==
  /\ lpc = "done" /\ cfg.colored /\ ~cfg.headers
  /\ log = << << SegText >> \o Marked(SegStartF), << SegText >> >>
  /\ SelectSeq(out, IsTextMsg) = << RawLineMsg(2) >>

\* the same log in plain mode: only the text of the second line is printed
C21_WitnessPlain ==
  /\ lpc = "done" /\ ~cfg.colored /\ ~cfg.headers
  /\ log = << << SegText >> \o Marked(SegStartF), << SegText >> >>
  /\ SelectSeq(out, IsTextMsg) = << SegmentMsg(2, 1, SegText) >>

\* the loop is about to go through a segment that is text
TextPending ==
  /\ lpc = "segs" /\ state.tag = "Text"
  /\ Section_from_str(CurSeg).tag = "Err"

\* C22: in plain mode a text segment is printed iff show_line holds for the
\* section stack as it is when the segment is met: the stack left by the last
\* open or close processed before it, on its line or before, and so the stack
\* at the start of the line for a segment that precedes the first marker of
\* the line.
C22_VisibilityPerTransition ==
  [][(TextPending /\ ~cfg.colored) =>
       Printed = (IF show_line_of(sections, cfg)
                    THEN << SegmentMsg(Len(log), pos, CurSeg) >> ELSE << >>)]_vars

\* text, the open of f and text on one line, without --headers: the text
\* before the marker is hidden and the text after the title is shown
C22_Witness ==
  /\ lpc = "done" /\ ~cfg.colored /\ ~cfg.headers
  /\ log = << << SegText >> \o Marked(SegStartF) \o << SegText >> >>
  /\ SelectSeq(out, IsTextMsg) = << SegmentMsg(1, 4, SegText) >>

\* text, the close of f and text on the line after the open of f: the text
\* before the close is shown and the text after it is hidden
C22_WitnessClose ==
  /\ lpc = "done" /\ ~cfg.colored /\ ~cfg.headers
  /\ log = << Marked(SegStartF), << SegText >> \o Marked(SegEndF) \o << SegText >> >>
  /\ SelectSeq(out, IsTextMsg) = << SegmentMsg(2, 1, SegText) >>

\* the sub-state that a segment leads to when it is parsed again
Reparsed(seg) ==
  LET r == Section_from_str(seg) IN
  IF r.tag = "Ok" THEN LogSection(r.section) ELSE LogText

\* C23: from Text, a segment that parses as a Section prints nothing and
\* leads to the pending section, a segment that does not parse is text and
\* leaves the sub-state Text; from a pending start or end, once the open or
\* close is done for the title segment, the sub-state is the pending section
\* that this same segment parses as, and Text if it does not parse.
C23_SubStateTransitions ==
  [][(lpc = "segs" /\ Section_from_str(CurSeg).tag # "Panic") =>
       /\ state' = Reparsed(CurSeg)
       /\ (state.tag = "Text" /\ state'.tag = "Section") => out' = out]_vars

\* the loop is running: a line is awaited, or the segments or the end of a
\* line are being processed
Running == lpc \in {"read", "segs", "eol"}

\* print_log_lines has returned Ok
Returned == lpc \in {"done", "cut"}

\* C24: rendering starts in the sub-state Text with an empty section stack
\* and, for every finite log, stops only by returning success, at the end of
\* the input, whether or not sections are still open.
C24_RenderingCompletes ==
  /\ (lpc = "read" /\ log = << >>) => (state = LogText /\ sections = << >>)
  /\ ~Running => Returned

\* the severity that the claim gives to each status, under the name of the
\* Style of the code (neutral is Style::Literal)
ClaimedStyle ==
  [status \in StatusState |->
     IF status \in {"Success", "Running"} THEN "Good"
     ELSE IF status \in {"Canceled", "Failed"} THEN "Error"
     ELSE IF status \in {"WaitingForResource", "Skipped", "Pending"} THEN "Warning"
     ELSE "Literal"]

\* C25: status_style gives a style to each of the eleven statuses (Success,
\* Running: good; Canceled, Failed: error; WaitingForResource, Skipped,
\* Pending: warning; Created, Manual, Preparing, Scheduled: neutral), and
\* has_log holds exactly for Running, Success, Failed and Canceled, the
\* statuses whose style is good or error.
C25_StatusStyleAndHasLog ==
  /\ Cardinality(StatusState) = 11
  /\ Done("status_style") =>
       /\ result.style = Some(ClaimedStyle[args.status])
       /\ result.has_log <=> args.status \in {"Running", "Success", "Failed", "Canceled"}
       /\ result.has_log <=> result.style \in {Some("Good"), Some("Error")}

\* a canceled job: the style is error and the job has a log
C25_Witness ==
  /\ Done("status_style") /\ args.status = "Canceled"
  /\ result = [style |-> Some("Error"), has_log |-> TRUE]

\* a skipped job: the style is warning and the job has no log
C25_WitnessNoLog ==
  /\ Done("status_style") /\ args.status = "Skipped"
  /\ result = [style |-> Some("Warning"), has_log |-> FALSE]

\* C26 (as claimed): whenever get_job succeeds, with or without an explicit
\* job id, the job returned is one of the listed jobs and its status has a
\* log.
C26_ReturnedJobHasLog ==
  (Done("get_job") /\ result.ok) =>
    /\ \E k \in 1..Len(TheJobs) : result.val[1] = TheJobs[k]
    /\ has_log(result.val[1].status)

\* C27 (as claimed): rendering goes through every line of the log: a step of
\* the reader either hands the next line to the renderer or ends the render at
\* the end of the input; a line that is not valid UTF-8 never ends it.
C27_EveryLineProcessed ==
  [][lpc = "read" => lpc' \in {"segs", "eol", "done"}]_vars

Headers == Len(SelectSeq(out, IsHeaderMsg))

Durations == Len(SelectSeq(out, IsDurationMsg))

\* C28: when all, headers or only_headers is set, at every point of a render
\* the number of header annotations printed minus the number of duration
\* annotations printed is the depth of the section stack, so the durations
\* never outnumber the headers.
C28_AnnotationsMatchDepth ==
  (lpc # "idle" /\ HeadersRequested) =>
    /\ Headers - Durations = Len(sections)
    /\ Durations <= Headers

\* a section opened and closed: one header, one duration, an empty stack
C28_Witness ==
  /\ lpc = "done" /\ HeadersRequested
  /\ Headers = 1 /\ Durations = 1 /\ sections = << >>

\* a close without an open section, rendered to the end: no annotation
C28_WitnessStrayClose ==
  /\ lpc = "done" /\ HeadersRequested
  /\ log = << << SegEndF, SegText >> >>
  /\ Headers = 0 /\ Durations = 0 /\ sections = << >>

\* a section marker is pending
MarkerPending == state.tag = "Section"

\* the section stack after the open or the close of the pending marker
AfterPending ==
  IF state.section.type_ = "Start" THEN Append(sections, state.section)
  ELSE IF sections = << >> THEN << >>
  ELSE SubSeq(sections, 1, Len(sections) - 1)

\* the segments that come first on a line after the first and follow a
\* section marker that ended an earlier line
CarriedTitles(roles) ==
  {k \in 1..Len(roles) : roles[k].pending /\ roles[k].seg = 1 /\ roles[k].line > 1}

\* C29: the parse sub-state is set once per render and not per line: a section
\* marker that is the last segment of a line stays pending across the line
\* boundary, and the first segment of the next line is taken as its title,
\* opens or closes the section, and is not printed as text.
C29_PendingAcrossLines ==
  /\ [](LET roles == Roles IN
          \A k \in CarriedTitles(roles) :
            /\ Count(out, SegmentMsg(roles[k].line, 1, roles[k].text)) = 0
            /\ Count(out, RawLineMsg(roles[k].line)) = 0)
  /\ [][(lpc \in {"eol", "read"} /\ lpc' # "cut") =>
          (state' = state /\ sections' = sections)]_vars
  /\ [][(lpc = "segs" /\ pos = 1 /\ MarkerPending) =>
          /\ sections' = AfterPending
          /\ SelectSeq(Printed, IsTextMsg) = << >>]_vars

\* the open of f ends the first line: the first segment of the second line is
\* its title and is not printed, the second one is printed as text
C29_Witness ==
  /\ lpc = "done" /\ ~cfg.colored
  /\ log = << << SegStartF >>, << SegText, SegText >> >>
  /\ Len(sections) = 1 /\ Headers = 1
  /\ SelectSeq(out, IsTextMsg) = << SegmentMsg(2, 2, SegText) >>

\* an open and the marker of its close on the first line, the title of the
\* close on the second: the section is closed on the second line
C29_WitnessClose ==
  /\ lpc = "done"
  /\ log = << << SegStartF, SegText, SegEndF >>, << SegText >> >>
  /\ sections = << >> /\ Headers = 1 /\ Durations = 1
  /\ SelectSeq(out, IsTextMsg) = << >>

\* C30: with all, headers and only_headers all false, nothing of the log is
\* shown while the section stack is empty, and a line is shown only if the
\* name of at least one open section contains the --section argument.
C30_HiddenOutsideNamedSections ==
  [][(~HeadersRequested /\ Printed # << >>) =>
       /\ sections' # << >>
       /\ NamedIn(sections', cfg) # {}
       /\ (\E i \in 1..Len(Printed) : IsTextMsg(Printed[i])) =>
            (sections' = sections /\ show_line_of(sections, cfg))]_vars

\* a line of text before any section and a line of text inside the section f:
\* only the second is shown
C30_Witness ==
  /\ lpc = "done" /\ ~HeadersRequested /\ ~cfg.colored
  /\ log = << << SegText >>, Marked(SegStartF) \o << SegText >> >>
  /\ SelectSeq(out, IsTextMsg) = << SegmentMsg(2, 3, SegText) >>

\* text inside the section c, which --section does not name: nothing is shown
C30_WitnessNotNamed ==
  /\ lpc = "done" /\ ~HeadersRequested
  /\ log = << Marked(SegStartC) \o << SegText >>, << SegText >> >>
  /\ Len(sections) = 1 /\ out = << >>

====
